---- MODULE Spec2Model ----
(***************************************************************************)
(* Model of RepliconHandler (src/src/replicon_handler.py): the transport   *)
(* functions post_request / get_request, the recursive retry state machine *)
(* connection_handler, and the thread-pool fan-out threaded_handler.       *)
(***************************************************************************)
EXTENDS Integers, Sequences, FiniteSets, Bags, TLC

(***************************************************************************)
(* Bounds of the model.                                                    *)
(***************************************************************************)
\* transport calls made on behalf of one direct connection_handler call
MaxAttempts == 3
\* payloads of one batch, size of the worker pool, and transport calls made
\* on behalf of one unit of a batch
MaxPayloads == 2
MaxWorkers == 2
BatchMaxAttempts == 2

(***************************************************************************)
(* Python values.                                                          *)
(***************************************************************************)
None == [tag |-> "none"]
PyStr(s) == [tag |-> "str", s |-> s]
PyInt(n) == [tag |-> "int", n |-> n]
Dict(f) == [tag |-> "dict", fields |-> f]
PyList(n) == [tag |-> "list", len |-> n]
PyTuple(a, b) == [tag |-> "tuple", fst |-> a, snd |-> b]

\* bool(v): the truth value Python gives a value in `if v:`
Truthy(v) ==
  CASE v.tag = "none" -> FALSE
    [] v.tag = "str" -> v.s # ""
    [] v.tag = "int" -> v.n # 0
    [] v.tag = "dict" -> DOMAIN v.fields # {}
    [] v.tag = "list" -> v.len # 0
    [] OTHER -> TRUE

\* d.get(k) on a dict
DictGetOtherKey(d, k) == IF "errors" \in DOMAIN d.fields THEN d.fields["errors"] ELSE None
DictGet(d, k) == IF k \in DOMAIN d.fields THEN d.fields[k] ELSE None

(***************************************************************************)
(* Exceptions.  An exception is its class and its single argument; the     *)
(* argument is a text wrapped in `reprs` layers of repr() quoting.         *)
(***************************************************************************)
Msg(text) == [text |-> text, reprs |-> 0]
Exc(cls, arg) == [cls |-> cls, arg |-> arg]

\* the classes requests.ConnectionError and requests.HTTPError and the
\* classes derived from them
ConnectionErrorKinds == {"ConnectionError", "SSLError", "ProxyError", "ConnectTimeout"}
HTTPErrorKinds == {"HTTPError"}

\* classes whose constructor does not accept a single message argument
NeedsMoreArgs == {"JSONDecodeError"}

\* str(exception): KeyError shows the repr of its argument
StrOf(e) ==
  IF e.cls = "KeyError"
    THEN [text |-> e.arg.text, reprs |-> e.arg.reprs + 1]
    ELSE e.arg

\* exception_type(f'{exception}'): the value of the raise statement of
\* connection_handler; a constructor that rejects the call raises TypeError
Reraise(e) ==
  IF e.cls \in NeedsMoreArgs
    THEN Exc("TypeError", Msg("JSONDecodeError.__init__() missing 2 required positional arguments: 'doc' and 'pos'"))
    ELSE Exc(e.cls, StrOf(e))

\* retry_worthy = [requests.ConnectionError, requests.HTTPError], tested
\* with `exception_type in retry_worthy` (the class itself, not subclasses)
retry_worthy == {"ConnectionError", "HTTPError"}

(***************************************************************************)
(* What one HTTP call can produce: requests.post / requests.get either     *)
(* raises, or returns a response with a status, headers and a body.        *)
(***************************************************************************)
CorrelationHeader == "x-execution-correlation-id"
LimitSentinel == PyStr("API Calls Limit Reached.")

\* parsed bodies; "unparseable" makes url_caller.json() raise
Bodies ==
  { [ok |-> FALSE],
    [ok |-> TRUE, json |-> Dict([d |-> PyInt(1)])],
    [ok |-> TRUE, json |-> Dict([d |-> PyInt(1), error |-> PyStr("E1")])],
    [ok |-> TRUE, json |-> Dict([d |-> PyInt(1), error |-> PyStr("API Calls Limit Reached.")])],
    [ok |-> TRUE, json |-> Dict([d |-> PyInt(1), error |-> PyStr("")])],
    [ok |-> TRUE, json |-> Dict([d |-> PyInt(1), error |-> None])],
    [ok |-> TRUE, json |-> Dict([error |-> Dict([reason |-> PyStr("bad")])])],
    [ok |-> TRUE, json |-> PyList(2)] }

Statuses == {200, 500}

\* bodies of throttled responses, which the service does not guarantee
LimitedBodies ==
  { [ok |-> FALSE],
    [ok |-> TRUE, json |-> Dict([d |-> PyInt(1), error |-> PyStr("E1")])] }

RaisedClasses == {"ConnectionError", "HTTPError", "SSLError", "ConnectTimeout", "TooManyRedirects"}

Responses ==
  [kind : {"response"}, status : Statuses, headers : {{}, {CorrelationHeader}}, body : Bodies]
  \cup
  [kind : {"response"}, status : {429}, headers : {{}, {CorrelationHeader}}, body : LimitedBodies]
  \cup
  { [kind |-> "raise", exc |-> Exc(c, Msg("net"))] : c \in RaisedClasses }

Returned(status, result) == [kind |-> "return", status |-> status, result |-> result]
Raised(e) == [kind |-> "raise", exc |-> e]
Log(level, what) == [ev |-> "log", level |-> level, what |-> what]

\* post_request, lines 120-137, applied to what requests.post produced
post_request_header_first(resp) ==
  IF resp.kind = "raise" THEN [out |-> Raised(resp.exc), logs |-> <<>>]
  ELSE IF CorrelationHeader \notin resp.headers
    THEN [out |-> Raised(Exc("KeyError", Msg(CorrelationHeader))), logs |-> <<>>]
  ELSE IF resp.status = 429
    THEN [out |-> Returned(resp.status, LimitSentinel), logs |-> <<>>]
  ELSE IF ~resp.body.ok
    THEN [out |-> Raised(Exc("JSONDecodeError", Msg("Expecting value: line 1 column 1 (char 0)"))),
          logs |-> <<Log("debug", "correlation")>>]
  ELSE IF resp.body.json.tag # "dict"
    THEN [out |-> Raised(Exc("AttributeError", Msg("'list' object has no attribute 'get'"))),
          logs |-> <<Log("debug", "correlation")>>]
  ELSE LET result == resp.body.json
           error_in_result == DictGet(result, "error")
       IN IF Truthy(error_in_result)
            THEN [out |-> Returned(resp.status, error_in_result),
                  logs |-> <<Log("debug", "correlation"), Log("error", "response")>>]
            ELSE [out |-> Returned(resp.status, result),
                  logs |-> <<Log("debug", "correlation"), Log("info", "response")>>]
post_request(resp) ==
  IF resp.kind = "raise" THEN [out |-> Raised(resp.exc), logs |-> <<>>]
  ELSE IF resp.status = 429
    THEN [out |-> Returned(resp.status, LimitSentinel), logs |-> <<>>]
  ELSE IF CorrelationHeader \notin resp.headers
    THEN [out |-> Raised(Exc("KeyError", Msg(CorrelationHeader))), logs |-> <<>>]
  ELSE IF ~resp.body.ok
    THEN [out |-> Raised(Exc("JSONDecodeError", Msg("Expecting value: line 1 column 1 (char 0)"))),
          logs |-> <<Log("debug", "correlation")>>]
  ELSE IF resp.body.json.tag # "dict"
    THEN [out |-> Raised(Exc("AttributeError", Msg("'list' object has no attribute 'get'"))),
          logs |-> <<Log("debug", "correlation")>>]
  ELSE LET result == resp.body.json
           error_in_result == DictGet(result, "error")
       IN IF Truthy(error_in_result)
            THEN [out |-> Returned(resp.status, error_in_result),
                  logs |-> <<Log("debug", "correlation"), Log("error", "response")>>]
            ELSE [out |-> Returned(resp.status, result),
                  logs |-> <<Log("debug", "correlation"), Log("info", "response")>>]

\* get_request, lines 146-163, applied to what requests.get produced
get_request(resp) ==
  IF resp.kind = "raise" THEN [out |-> Raised(resp.exc), logs |-> <<>>]
  ELSE IF resp.status = 429
    THEN [out |-> Returned(resp.status, LimitSentinel), logs |-> <<>>]
  ELSE IF CorrelationHeader \notin resp.headers
    THEN [out |-> Raised(Exc("KeyError", Msg(CorrelationHeader))), logs |-> <<>>]
  ELSE IF ~resp.body.ok
    THEN [out |-> Raised(Exc("JSONDecodeError", Msg("Expecting value: line 1 column 1 (char 0)"))),
          logs |-> <<Log("debug", "correlation")>>]
  ELSE IF resp.body.json.tag # "dict"
    THEN [out |-> Raised(Exc("AttributeError", Msg("'list' object has no attribute 'get'"))),
          logs |-> <<Log("debug", "correlation")>>]
  ELSE LET result == resp.body.json
           error_in_result == DictGet(result, "error")
       IN IF Truthy(error_in_result)
            THEN [out |-> Returned(resp.status, error_in_result),
                  logs |-> <<Log("debug", "correlation"), Log("error", "response")>>]
            ELSE [out |-> Returned(resp.status, error_in_result),
                  logs |-> <<Log("debug", "correlation"), Log("info", "response")>>]

\* seconds to the top of the next hour
till_next_hour_no_seconds(now) == (60 * 60) - (now.minute * 60)
till_next_hour(now) == (60 * 60) - (now.minute * 60 + now.second)


(***************************************************************************)
(* Construction of the handler (__init__): the configuration.             *)
(***************************************************************************)
Version == "Replicon-Handler-v1.1.7"

\* keyword arguments the constructor is given
Kwargs ==
  [company_key : {PyStr("acme")},
   username : {PyStr("user"), None},
   password : {PyStr("pw"), None},
   authentication_token : {PyStr("tok"), None},
   method : {"post", "get"},
   application : {"app"}]

\* __init__, lines 34-70: the fields it sets, or "raise" when it rejects
\* what the discovery service answers about the tenant, lines 247-254
TenantDetails ==
  [slug |-> "acme",
   applicationRootUrl |-> <<"https:", "na1.replicon.com/acme/">>,
   rootUrl |-> "https://na1.polaris.replicon.com/acme/"]

\* get_application_details, lines 254-262: '//src-'.join(swimlane.split('//'))
get_application_details ==
  [slug |-> TenantDetails.slug,
   swimlane |-> TenantDetails.applicationRootUrl[1] \o "//"
                  \o TenantDetails.applicationRootUrl[2],
   source_swimlane |-> TenantDetails.applicationRootUrl[1] \o "//src-"
                         \o TenantDetails.applicationRootUrl[2],
   polaris |-> TenantDetails.rootUrl]

RepliconHandlerInit(kwargs) ==
  IF ~Truthy(kwargs.company_key) THEN [ok |-> FALSE]
  ELSE IF ~((Truthy(kwargs.username) /\ Truthy(kwargs.password))
            \/ Truthy(kwargs.authentication_token)) THEN [ok |-> FALSE]
  ELSE IF kwargs.method \notin {"post", "get"} THEN [ok |-> FALSE]
  ELSE
    [ok |-> TRUE,
     company_key |-> kwargs.company_key,
     username |-> IF Truthy(kwargs.username) /\ Truthy(kwargs.password)
                    THEN kwargs.username ELSE None,
     password |-> IF Truthy(kwargs.username) /\ Truthy(kwargs.password)
                    THEN kwargs.password ELSE None,
     authentication_token |-> IF Truthy(kwargs.username) /\ Truthy(kwargs.password)
                                THEN None ELSE kwargs.authentication_token,
     method |-> kwargs.method,
     headers |-> kwargs.application \o "; v=" \o Version,
     global_domain |-> "https://global.replicon.com",
     tenant_slug |-> get_application_details.slug,
     swimlane |-> get_application_details.swimlane,
     source_swimlane |-> get_application_details.source_swimlane,
     polaris |-> get_application_details.polaris]

Configs == { RepliconHandlerInit(k) : k \in Kwargs } \ {[ok |-> FALSE]}

\* connection_handler, lines 175-177: the credential of a transport call
AuthenticationSlash(cfg) ==
  IF Truthy(cfg.authentication_token)
    THEN None
    ELSE PyTuple(cfg.company_key.s \o "/" \o cfg.username.s, cfg.password)
Authentication(cfg) ==
  IF Truthy(cfg.authentication_token)
    THEN None
    ELSE PyTuple(cfg.company_key.s \o "\\" \o cfg.username.s, cfg.password)

(***************************************************************************)
(* State.                                                                  *)
(***************************************************************************)
VARIABLES
  config,    \* the handler's fields set by __init__
  args,      \* args[u]: connector and payload of unit u's connection_handler call
  pc,        \* pc[u]: where unit u's connection_handler call is
  frames,    \* frames[u]: the outer frames of the recursion, outermost first
  trace,     \* trace[u]: transport calls, log records and sleeps, in order
  resp,      \* resp[u]: what the latest HTTP call produced
  outcome    \* outcome[u]: what the connection_handler call returned or raised

hvars == <<config, args, pc, frames, trace, resp, outcome>>

VARIABLES
  batch,       \* the arguments of the threaded_handler call
  main,        \* where the thread that called threaded_handler is
  nsub,        \* number of payloads submitted to the executor so far
  queue,       \* the executor's work queue: units no worker has taken yet
  future,      \* future[u]: state of the future of unit u
  snapshot,    \* futures as_completed found finished when it was entered
  unyielded,   \* futures of the snapshot not yet yielded
  pending,     \* futures as_completed still waits for
  waiter,      \* futures that finished after as_completed was entered
  counter,     \* the local counter of threaded_handler
  results,     \* the local list results of threaded_handler
  yielded,     \* units in the order as_completed yielded their futures
  finishOrder, \* units in the order their futures became finished
  printed,     \* the progress lines written so far
  thrown       \* what threaded_handler returned or raised

bvars == <<batch, main, nsub, queue, future, snapshot, unyielded, pending, waiter,
           counter, results, yielded, finishOrder, printed, thrown>>

Connectors == {"https://t/services/A", "https://t/services/B"}
Payloads == {Dict([id |-> PyInt(1)]), Dict([id |-> PyInt(2)])}

\* wall-clock readings of datetime.datetime.now()
Clocks == {[minute |-> 0, second |-> 0], [minute |-> 59, second |-> 40],
           [minute |-> 59, second |-> 59]}

NoArgs == [connector |-> "", payload |-> None]
NoResp == [kind |-> "none"]
NoOutcome == [kind |-> "none"]

Send(cfg, a) ==
  [ev |-> "send", method |-> cfg.method, url |-> a.connector, headers |-> cfg.headers,
   payload |-> a.payload, auth |-> Authentication(cfg)]
Sleep(secs) == [ev |-> "sleep", secs |-> secs]
Invoke(a) == [ev |-> "call", connector |-> a.connector, payload |-> a.payload]
Stdout(what) == [ev |-> "stdout", what |-> what]
Clock(now) == [ev |-> "now", minute |-> now.minute, second |-> now.second]

RECURSIVE CountEv(_, _)
CountEv(tr, ev) ==
  IF tr = <<>> THEN 0
  ELSE (IF tr[Len(tr)].ev = ev THEN 1 ELSE 0) + CountEv(SubSeq(tr, 1, Len(tr) - 1), ev)

Attempts(u) == CountEv(trace[u], "send")

(***************************************************************************)
(* connection_handler.                                                     *)
(***************************************************************************)
RECURSIVE Propagate(_, _, _)
RECURSIVE ExceptClause(_, _, _)

\* lines 183 and 191: the test for the rate-limit status
RateLimitedNever(status_code) == FALSE
RateLimited(status_code) == status_code = 429

\* lines 185-186 and 193-194: what a frame does on a rate-limit status
\* before it calls itself again
LimitedBranchNoSleep(now) == <<Log("error", "limited"), Clock(now)>>
LimitedBranchSleepFirst(now) ==
  <<Clock(now), Sleep(till_next_hour(now)), Log("error", "limited")>>
LimitedBranch(now) ==
  <<Log("error", "limited"), Clock(now), Sleep(till_next_hour(now))>>

\* line 204: the test that decides between retry and raise
IsRetryWorthyAlways(exception_type) == TRUE
IsRetryWorthy(exception_type) == exception_type \in retry_worthy

\* line 207: the fixed delay before the retry of a failed call
RetryDelayHourly == 60 * 60
RetryDelay == 20

\* the transport function selected by self.method, lines 180-182 and 188-190
Transport(cfg, rsp) ==
  IF cfg.method = "post" THEN post_request(rsp) ELSE get_request(rsp)

\* lines 197-211: the except clause of a frame whose outer frames are fr
ExceptClauseOnce(fr, e, tr) ==
  LET tr1 == Append(tr, Log("error", "exception"))
  IN IF IsRetryWorthy(e.cls) /\ fr = <<>>
       THEN [pc |-> "retry_wait", frames |-> fr,
             trace |-> tr1 \o <<Stdout("retrying"), Sleep(RetryDelay)>>,
             outcome |-> NoOutcome]
       ELSE Propagate(fr, Reraise(e), tr1)
ExceptClause(fr, e, tr) ==
  LET tr1 == Append(tr, Log("error", "exception"))
  IN IF IsRetryWorthy(e.cls)
       THEN [pc |-> "retry_wait", frames |-> fr,
             trace |-> tr1 \o <<Stdout("retrying"), Sleep(RetryDelay)>>,
             outcome |-> NoOutcome]
       ELSE Propagate(fr, Reraise(e), tr1)

\* an exception leaving a frame reaches the frame that called it: a call
\* made at line 187/195 is inside the try block, one made at line 208 is not
Propagate(fr, e, tr) ==
  IF fr = <<>>
    THEN [pc |-> "raised", frames |-> <<>>, trace |-> tr, outcome |-> Raised(e)]
    ELSE LET outer == SubSeq(fr, 1, Len(fr) - 1)
         IN IF fr[Len(fr)] = "try"
              THEN ExceptClause(outer, e, tr)
              ELSE Propagate(outer, e, tr)

\* lines 179-213: one frame of connection_handler from its transport call
\* to the point where it sleeps, returns or raises
connection_handler(cfg, fr, tr, rsp, now) ==
  LET t == Transport(cfg, rsp)
      tr1 == tr \o t.logs
  IN IF t.out.kind = "return"
       THEN IF RateLimited(t.out.status)
              THEN [pc |-> "backoff", frames |-> fr,
                    trace |-> tr1 \o LimitedBranch(now),
                    outcome |-> NoOutcome]
              ELSE [pc |-> "returned", frames |-> <<>>, trace |-> tr1,
                    outcome |-> [kind |-> "return", value |-> t.out.result]]
       ELSE ExceptClause(fr, t.out.exc, tr1)

\* the caller invokes connection_handler(connector, payload)
Call(u) ==
  /\ pc[u] = "idle"
  /\ \E c \in Connectors, p \in Payloads :
       /\ args' = [args EXCEPT ![u] = [connector |-> c, payload |-> p]]
       /\ trace' = [trace EXCEPT ![u] = <<Invoke(args'[u])>>]
  /\ pc' = [pc EXCEPT ![u] = "attempt"]
  /\ UNCHANGED <<config, frames, resp, outcome>>

\* the current frame makes its transport call and acts on what comes back
Attempt(u, responses, clocks, cap) ==
  /\ pc[u] = "attempt"
  /\ \E rsp \in responses, now \in clocks :
       LET n == connection_handler(config, frames[u],
                                   Append(trace[u], Send(config, args[u])), rsp, now)
       IN /\ n.pc \in {"backoff", "retry_wait"} => Attempts(u) + 1 < cap
          /\ resp' = [resp EXCEPT ![u] = rsp]
          /\ pc' = [pc EXCEPT ![u] = n.pc]
          /\ frames' = [frames EXCEPT ![u] = n.frames]
          /\ trace' = [trace EXCEPT ![u] = n.trace]
          /\ outcome' = [outcome EXCEPT ![u] = n.outcome]
  /\ UNCHANGED <<config, args>>

\* time.sleep ends and the frame calls connection_handler again
Wake(u) ==
  /\ pc[u] \in {"backoff", "retry_wait"}
  /\ frames' = [frames EXCEPT ![u] = Append(frames[u],
                   IF pc[u] = "backoff" THEN "try" ELSE "except")]
  /\ pc' = [pc EXCEPT ![u] = "attempt"]
  /\ UNCHANGED <<config, args, trace, resp, outcome>>

(***************************************************************************)
(* A direct call of connection_handler by one caller.                      *)
(***************************************************************************)
NoBatch == [connector |-> "", payloads |-> <<>>, workers |-> 0]

Init ==
  /\ config \in Configs
  /\ args = [u \in {1} |-> NoArgs]
  /\ pc = [u \in {1} |-> "idle"]
  /\ frames = [u \in {1} |-> <<>>]
  /\ trace = [u \in {1} |-> <<>>]
  /\ resp = [u \in {1} |-> NoResp]
  /\ outcome = [u \in {1} |-> NoOutcome]
  /\ batch = NoBatch
  /\ main = "none"
  /\ nsub = 0
  /\ queue = <<>>
  /\ future = <<>>
  /\ snapshot = {}
  /\ unyielded = {}
  /\ pending = {}
  /\ waiter = <<>>
  /\ counter = 0
  /\ results = <<>>
  /\ yielded = <<>>
  /\ finishOrder = <<>>
  /\ printed = <<>>
  /\ thrown = NoOutcome

Next ==
  \/ Call(1) /\ UNCHANGED bvars
  \/ Attempt(1, Responses, Clocks, MaxAttempts) /\ UNCHANGED bvars
  \/ Wake(1) /\ UNCHANGED bvars

vars == <<hvars, bvars>>

Spec == Init /\ [][Next]_vars

\* what the service answers to a caller that keeps running: a body, a
\* body with an error, a throttled answer, a dropped connection, a redirect
\* loop
LiveResponses ==
  { r \in Responses :
      \/ /\ r.kind = "response"
         /\ r.status \in {200, 429}
         /\ r.headers = {CorrelationHeader}
         /\ r.body = [ok |-> TRUE, json |-> Dict([d |-> PyInt(1), error |-> PyStr("E1")])]
      \/ /\ r.kind = "raise"
         /\ r.exc.cls \in {"ConnectionError", "TooManyRedirects"} }
LiveClocks == {[minute |-> 59, second |-> 59]}

InitLive == Init /\ (config.method = "post") = Truthy(config.authentication_token)

NextLive ==
  \/ Call(1) /\ UNCHANGED bvars
  \/ Attempt(1, LiveResponses, LiveClocks, MaxAttempts) /\ UNCHANGED bvars
  \/ Wake(1) /\ UNCHANGED bvars

\* the calling thread keeps running: a transport call comes back and a
\* sleep ends
SpecLive == InitLive /\ [][NextLive]_vars /\ WF_vars(NextLive)

(***************************************************************************)
(* threaded_handler: a batch of payloads on a pool of worker threads.      *)
(***************************************************************************)
Units == 1..Len(batch.payloads)

\* responses and clock readings the units of a batch meet
BatchResponses ==
  { [kind |-> "response", status |-> 200, headers |-> {CorrelationHeader},
     body |-> [ok |-> TRUE, json |-> Dict([d |-> PyInt(1)])]],
    [kind |-> "response", status |-> 500, headers |-> {CorrelationHeader},
     body |-> [ok |-> TRUE, json |-> Dict([d |-> PyInt(1), error |-> PyStr("E1")])]],
    [kind |-> "response", status |-> 429, headers |-> {}, body |-> [ok |-> FALSE]],
    [kind |-> "raise", exc |-> Exc("TooManyRedirects", Msg("net"))] }
BatchClocks == {[minute |-> 59, second |-> 59]}

\* the batches threaded_handler is called with: n payloads with the ids
\* 1, 2, 2, 3, 3, ... (equal payloads occur) and a pool of w workers
Batches ==
  { [connector |-> c, payloads |-> [i \in 1..n |-> Dict([id |-> PyInt((i \div 2) + 1)])],
     workers |-> w] :
      c \in {"https://t/services/A"}, n \in 0..MaxPayloads, w \in 1..MaxWorkers }

\* the handlers the batches run on: one per method
BatchConfigs ==
  { cfg \in Configs : (cfg.method = "post") = Truthy(cfg.authentication_token) }

InitBatch ==
  /\ config \in BatchConfigs
  /\ batch \in Batches
  /\ args = [u \in Units |-> NoArgs]
  /\ pc = [u \in Units |-> "idle"]
  /\ frames = [u \in Units |-> <<>>]
  /\ trace = [u \in Units |-> <<>>]
  /\ resp = [u \in Units |-> NoResp]
  /\ outcome = [u \in Units |-> NoOutcome]
  /\ main = "submitting"
  /\ nsub = 0
  /\ queue = <<>>
  /\ future = [u \in Units |-> "none"]
  /\ snapshot = {}
  /\ unyielded = {}
  /\ pending = {}
  /\ waiter = <<>>
  /\ counter = 0
  /\ results = <<>>
  /\ yielded = <<>>
  /\ finishOrder = <<>>
  /\ printed = <<>>
  /\ thrown = NoOutcome

\* units whose connection_handler call a worker thread is executing; a
\* thread that sleeps inside the call is still executing it
InFlightAwake == {u \in Units : future[u] = "running" /\ pc[u] = "attempt"}
InFlight == {u \in Units : future[u] = "running"}

\* the work item a free worker thread takes from the executor's queue
NextQueuedNewest(q) == q[Len(q)]
NextQueued(q) == Head(q)

\* lines 221-223: the next payload is submitted; its future is pending
SubmitLastPayload ==
  /\ main = "submitting"
  /\ nsub < Len(batch.payloads)
  /\ nsub' = nsub + 1
  /\ args' = [args EXCEPT ![nsub + 1] =
                [connector |-> batch.connector,
                 payload |-> batch.payloads[Len(batch.payloads)]]]
  /\ future' = [future EXCEPT ![nsub + 1] = "pending"]
  /\ queue' = Append(queue, nsub + 1)
  /\ UNCHANGED <<config, pc, frames, trace, resp, outcome>>
  /\ UNCHANGED <<batch, main, snapshot, unyielded, pending, waiter, counter, results,
                 yielded, finishOrder, printed, thrown>>
Submit ==
  /\ main = "submitting"
  /\ nsub < Len(batch.payloads)
  /\ nsub' = nsub + 1
  /\ args' = [args EXCEPT ![nsub + 1] =
                [connector |-> batch.connector, payload |-> batch.payloads[nsub + 1]]]
  /\ future' = [future EXCEPT ![nsub + 1] = "pending"]
  /\ queue' = Append(queue, nsub + 1)
  /\ UNCHANGED <<config, pc, frames, trace, resp, outcome>>
  /\ UNCHANGED <<batch, main, snapshot, unyielded, pending, waiter, counter, results,
                 yielded, finishOrder, printed, thrown>>

\* a free worker thread takes the oldest queued unit and calls
\* connection_handler for it
Start ==
  /\ queue # <<>>
  /\ Cardinality(InFlight) < batch.workers
  /\ LET u == NextQueued(queue)
     IN /\ queue' = SelectSeq(queue, LAMBDA v : v # u)
        /\ future' = [future EXCEPT ![u] = "running"]
        /\ pc' = [pc EXCEPT ![u] = "attempt"]
        /\ trace' = [trace EXCEPT ![u] = Append(@, Invoke(args[u]))]
  /\ UNCHANGED <<config, args, frames, resp, outcome>>
  /\ UNCHANGED <<batch, main, nsub, snapshot, unyielded, pending, waiter, counter, results,
                 yielded, finishOrder, printed, thrown>>

\* a worker runs one step of its unit; when the call returns or raises the
\* worker sets the future's result, which notifies as_completed if it waits
Work(u) ==
  /\ future[u] = "running"
  /\ Attempt(u, BatchResponses, BatchClocks, BatchMaxAttempts)
  /\ IF pc'[u] \in {"returned", "raised"}
       THEN /\ future' = [future EXCEPT ![u] = "finished"]
            /\ finishOrder' = Append(finishOrder, u)
            /\ waiter' = IF main = "collecting" THEN Append(waiter, u) ELSE waiter
       ELSE UNCHANGED <<future, finishOrder, waiter>>
  /\ UNCHANGED <<batch, main, nsub, queue, snapshot, unyielded, pending, counter, results,
                 yielded, printed, thrown>>

\* the sleep of a worker ends
WorkerWake(u) ==
  /\ future[u] = "running"
  /\ Wake(u)
  /\ UNCHANGED bvars

\* line 225: the for loop enters as_completed, which sets aside the futures
\* that are finished already and waits for the others
BeginCollect ==
  /\ main = "submitting"
  /\ nsub = Len(batch.payloads)
  /\ main' = "collecting"
  /\ snapshot' = {u \in Units : future[u] = "finished"}
  /\ unyielded' = {u \in Units : future[u] = "finished"}
  /\ pending' = {u \in Units : future[u] # "finished"}
  /\ UNCHANGED hvars
  /\ UNCHANGED <<batch, nsub, queue, future, waiter, counter, results, yielded,
                 finishOrder, printed, thrown>>

\* the future as_completed yields from those that finished while it waited
NextWaitingNewest(w) == w[Len(w)]
NextWaiting(w) == Head(w)

\* lines 225-228: the body of the for loop for the future u
LoopBodyDistinct(u) ==
  /\ counter' = counter + 1
  /\ printed' = Append(printed, counter + 1)
  /\ yielded' = Append(yielded, u)
  /\ IF outcome[u].kind = "raise"
       THEN /\ main' = "unwinding"
            /\ thrown' = outcome[u]
            /\ UNCHANGED results
       ELSE /\ results' = IF \E i \in 1..Len(results) : results[i] = outcome[u].value
                            THEN results ELSE Append(results, outcome[u].value)
            /\ UNCHANGED <<main, thrown>>
LoopBodyPrintFirst(u) ==
  /\ counter' = counter + 1
  /\ printed' = Append(printed, counter)
  /\ yielded' = Append(yielded, u)
  /\ IF outcome[u].kind = "raise"
       THEN /\ main' = "unwinding"
            /\ thrown' = outcome[u]
            /\ UNCHANGED results
       ELSE /\ results' = Append(results, outcome[u].value)
            /\ UNCHANGED <<main, thrown>>
LoopBody(u) ==
  /\ counter' = counter + 1
  /\ printed' = Append(printed, counter + 1)
  /\ yielded' = Append(yielded, u)
  /\ IF outcome[u].kind = "raise"
       THEN /\ main' = "unwinding"
            /\ thrown' = outcome[u]
            /\ UNCHANGED results
       ELSE /\ results' = Append(results, outcome[u].value)
            /\ UNCHANGED <<main, thrown>>

\* as_completed yields a future of the snapshot, in no particular order
CollectFound ==
  /\ main = "collecting"
  /\ \E u \in unyielded :
       /\ unyielded' = unyielded \ {u}
       /\ LoopBody(u)
  /\ UNCHANGED hvars
  /\ UNCHANGED <<batch, nsub, queue, future, snapshot, pending, waiter, finishOrder>>

\* as_completed yields the futures that finished later, oldest first
CollectWaited ==
  /\ main = "collecting"
  /\ unyielded = {}
  /\ waiter # <<>>
  /\ LET u == NextWaiting(waiter)
     IN /\ waiter' = SelectSeq(waiter, LAMBDA v : v # u)
        /\ pending' = pending \ {u}
        /\ LoopBody(u)
  /\ UNCHANGED hvars
  /\ UNCHANGED <<batch, nsub, queue, future, snapshot, unyielded, finishOrder>>

\* lines 220 and 230: as_completed has nothing left to yield or to wait
\* for; the with block ends (all units are finished) and results is returned
Return ==
  /\ main = "collecting"
  /\ unyielded = {}
  /\ pending = {}
  /\ main' = "returned"
  /\ thrown' = [kind |-> "return", value |-> results]
  /\ UNCHANGED hvars
  /\ UNCHANGED <<batch, nsub, queue, future, snapshot, unyielded, pending, waiter,
                 counter, results, yielded, finishOrder, printed>>

\* line 220: an exception leaves the for loop; the with block waits for
\* the worker threads, which run every queued unit, and then it propagates
UnwindAtOnce ==
  /\ main = "unwinding"
  /\ main' = "raised"
  /\ UNCHANGED hvars
  /\ UNCHANGED <<batch, nsub, queue, future, snapshot, unyielded, pending, waiter,
                 counter, results, yielded, finishOrder, printed, thrown>>
Unwind ==
  /\ main = "unwinding"
  /\ \A u \in Units : future[u] = "finished"
  /\ main' = "raised"
  /\ UNCHANGED hvars
  /\ UNCHANGED <<batch, nsub, queue, future, snapshot, unyielded, pending, waiter,
                 counter, results, yielded, finishOrder, printed, thrown>>

NextBatch ==
  \/ Submit
  \/ Start
  \/ \E u \in Units : Work(u)
  \/ \E u \in Units : WorkerWake(u)
  \/ BeginCollect
  \/ CollectFound
  \/ CollectWaited
  \/ Return
  \/ Unwind

SpecBatch == InitBatch /\ [][NextBatch]_vars

(***************************************************************************)
(* Observations on the trace of one connection_handler call.               *)
(***************************************************************************)
IsSendOrSleep(e) == e.ev \in {"send", "sleep"}
IsSleep(e) == e.ev = "sleep"
IsLimitedLog(e) == e = Log("error", "limited")
IsExceptionLog(e) == e = Log("error", "exception")

Limited(u) == Len(SelectSeq(trace[u], IsLimitedLog))
Faults(u) == Len(SelectSeq(trace[u], IsExceptionLog))
Sleeps(u) == SelectSeq(trace[u], IsSleep)
Steps(u) == SelectSeq(trace[u], IsSendOrSleep)

\* send, sleep, send, ..., sleep, send: n sends separated by n-1 sleeps
Alternates(st, n) ==
  /\ Len(st) = 2 * n - 1
  /\ \A i \in 1..Len(st) : st[i].ev = (IF i % 2 = 1 THEN "send" ELSE "sleep")

\* a response that reaches the parsed body: not 429, correlation header
\* present, body a JSON object
Parsed(r) ==
  /\ r.kind = "response"
  /\ r.status # 429
  /\ CorrelationHeader \in r.headers
  /\ r.body.ok
  /\ r.body.json.tag = "dict"

HasError(r) == "error" \in DOMAIN r.body.json.fields

(***************************************************************************)
(* C1: whenever connection_handler returns, the value returned is the      *)
(* result of a transport call whose response status was not 429, whatever  *)
(* number of 429 responses came before.                                    *)
(***************************************************************************)
C1_NeverReturnsRateLimit ==
  \A u \in DOMAIN pc :
    pc[u] = "returned" =>
      /\ resp[u].kind = "response"
      /\ resp[u].status # 429
      /\ Transport(config, resp[u]).out.kind = "return"
      /\ Transport(config, resp[u]).out.status # 429
      /\ outcome[u] = [kind |-> "return", value |-> Transport(config, resp[u]).out.result]

C1_Witness ==
  \E u \in DOMAIN pc : pc[u] = "returned" /\ Limited(u) >= 2

(***************************************************************************)
(* C2: k responses 429 followed by a non-429 success make k+1 transport    *)
(* calls, all with the URL, payload of the call, and k sleeps, one between *)
(* each two consecutive calls and none after the last; the value returned  *)
(* is the result of the last call.                                         *)
(***************************************************************************)
C2_RateLimitRetries ==
  \A u \in DOMAIN pc :
    (pc[u] = "returned" /\ Faults(u) = 0) =>
      /\ Attempts(u) = Limited(u) + 1
      /\ Len(Sleeps(u)) = Limited(u)
      /\ Alternates(Steps(u), Limited(u) + 1)
      /\ \A i \in 1..Len(trace[u]) :
           trace[u][i].ev = "send" =>
             /\ trace[u][i].url = args[u].connector
             /\ trace[u][i].payload = args[u].payload
      /\ outcome[u].value = Transport(config, resp[u]).out.result

C2_Witness ==
  \E u \in DOMAIN pc :
    /\ pc[u] = "returned" /\ Faults(u) = 0 /\ Limited(u) = 1
    /\ resp[u].status = 200 /\ Len(Sleeps(u)) = 1

(***************************************************************************)
(* C3: k retry-worthy faults followed by a success make k+1 transport      *)
(* calls and exactly k sleeps, each of 20 seconds, one between each two    *)
(* consecutive calls; the success result is returned.                      *)
(***************************************************************************)
C3_FaultRetries ==
  \A u \in DOMAIN pc :
    (pc[u] = "returned" /\ Limited(u) = 0) =>
      /\ Attempts(u) = Faults(u) + 1
      /\ Len(Sleeps(u)) = Faults(u)
      /\ \A i \in 1..Len(Sleeps(u)) : Sleeps(u)[i].secs = 20
      /\ Alternates(Steps(u), Faults(u) + 1)
      /\ outcome[u].value = Transport(config, resp[u]).out.result

C3_Witness ==
  \E u \in DOMAIN pc :
    /\ pc[u] = "returned" /\ Limited(u) = 0 /\ Faults(u) = 1
    /\ Sleeps(u) = <<Sleep(20)>>

(***************************************************************************)
(* C4: a transport fault that is a connection-level or HTTP-level fault,   *)
(* whatever its concrete class, is never raised by connection_handler.     *)
(***************************************************************************)
C4_TransientAbsorbed ==
  \A u \in DOMAIN pc :
    (pc[u] = "raised" /\ resp[u].kind = "raise") =>
      resp[u].exc.cls \notin (ConnectionErrorKinds \cup HTTPErrorKinds)

(***************************************************************************)
(* C5: a transport call that raises a fault that is not retry-worthy ends  *)
(* the connection_handler call by raising, in that step: one transport     *)
(* call was made for the attempt, no sleep is begun and no call follows,   *)
(* at any depth of the recursion.                                          *)
(***************************************************************************)
C5_FatalNotRetried ==
  [][\A u \in DOMAIN pc :
       (/\ pc[u] = "attempt"
        /\ pc'[u] # "attempt"
        /\ Transport(config, resp'[u]).out.kind = "raise"
        /\ Transport(config, resp'[u]).out.exc.cls \notin retry_worthy)
       => /\ pc'[u] = "raised"
          /\ outcome'[u].kind = "raise"
          /\ CountEv(trace'[u], "send") = CountEv(trace[u], "send") + 1
          /\ CountEv(trace'[u], "sleep") = CountEv(trace[u], "sleep")
          /\ frames'[u] = <<>>]_vars

C5_Witness ==
  \E u \in DOMAIN pc :
    /\ pc[u] = "raised" /\ Limited(u) >= 1 /\ Faults(u) >= 2
    /\ Len(Sleeps(u)) = 2

(***************************************************************************)
(* C6: the exception connection_handler raises has the class and the       *)
(* message of the exception the transport call raised.                     *)
(***************************************************************************)
C6_FatalUnchanged ==
  \A u \in DOMAIN pc :
    pc[u] = "raised" =>
      LET original == Transport(config, resp[u]).out.exc
      IN /\ outcome[u].exc.cls = original.cls
         /\ StrOf(outcome[u].exc) = StrOf(original)

(***************************************************************************)
(* C7 as stated: a parsed non-429 response with an `error` field, whatever *)
(* the value of the field, makes the transport return (status, error       *)
(* value) and connection_handler return the error value.                   *)
(***************************************************************************)
C7_AnyErrorValue ==
  \A u \in DOMAIN pc :
    (Parsed(resp[u]) /\ HasError(resp[u])) =>
      /\ Transport(config, resp[u]).out
           = Returned(resp[u].status, resp[u].body.json.fields.error)
      /\ pc[u] = "returned"
      /\ outcome[u] = [kind |-> "return", value |-> resp[u].body.json.fields.error]

(***************************************************************************)
(* C7 amended: a parsed non-429 response with an `error` field whose value *)
(* is truthy makes the transport return (status, error value) without a    *)
(* fault, and connection_handler returns the error value at once, without  *)
(* raising or sleeping for another attempt.                                *)
(***************************************************************************)
C7_TruthyErrorValue ==
  \A u \in DOMAIN pc :
    (Parsed(resp[u]) /\ HasError(resp[u])
       /\ Truthy(resp[u].body.json.fields.error)) =>
      /\ Transport(config, resp[u]).out
           = Returned(resp[u].status, resp[u].body.json.fields.error)
      /\ pc[u] = "returned"
      /\ outcome[u] = [kind |-> "return", value |-> resp[u].body.json.fields.error]
      /\ trace[u][Len(trace[u])] = Log("error", "response")

C7_Witness ==
  \E u \in DOMAIN pc :
    /\ Parsed(resp[u]) /\ HasError(resp[u])
    /\ resp[u].status = 500
    /\ config.method = "get"
    /\ outcome[u] = [kind |-> "return", value |-> PyStr("E1")]

(***************************************************************************)
(* C8: a parsed non-429 response without an `error` field makes the        *)
(* transport, and so connection_handler, return the full parsed body.      *)
(***************************************************************************)
C8_FullBody ==
  \A u \in DOMAIN pc :
    (Parsed(resp[u]) /\ ~HasError(resp[u])) =>
      /\ pc[u] = "returned"
      /\ outcome[u] = [kind |-> "return", value |-> resp[u].body.json]

(***************************************************************************)
(* Observations on a batch.                                                *)
(***************************************************************************)
Occurs(seq, u) == \E i \in 1..Len(seq) : seq[i] = u
Pos(seq, u) == IF Occurs(seq, u) THEN CHOOSE i \in 1..Len(seq) : seq[i] = u ELSE 0
Before(seq, a, b) == Occurs(seq, a) /\ Occurs(seq, b) /\ Pos(seq, a) < Pos(seq, b)
Times(seq, u) == Cardinality({i \in 1..Len(seq) : seq[i] = u})

RECURSIVE BagOf(_)
BagOf(seq) ==
  IF seq = <<>> THEN EmptyBag
  ELSE BagOf(Tail(seq)) (+) SetToBag({Head(seq)})

UnitResults == [u \in Units |-> outcome[u].value]

(***************************************************************************)
(* C9: a batch of N payloads in which no unit raises returns exactly N     *)
(* results: every unit's connection_handler was invoked once, every        *)
(* unit's future was yielded once, and the results are, as a multiset,     *)
(* the values the N units returned.                                        *)
(***************************************************************************)
C9_ExactlyNResults ==
  /\ main = "returned" =>
       /\ \A u \in Units : outcome[u].kind = "return"
       /\ \A u \in Units : CountEv(trace[u], "call") = 1
       /\ \A u \in Units : trace[u][1] = Invoke([connector |-> batch.connector,
                                                 payload |-> batch.payloads[u]])
       /\ Len(results) = Len(batch.payloads)
       /\ \A u \in Units : Times(yielded, u) = 1
       /\ \A i \in 1..Len(results) : results[i] = outcome[yielded[i]].value
       /\ BagOf(results) = BagOf(UnitResults)
       /\ thrown = [kind |-> "return", value |-> results]
  /\ main \in {"unwinding", "raised"} => \E u \in Units : outcome[u].kind = "raise"

C9_Witness ==
  /\ main = "returned"
  /\ Len(batch.payloads) = MaxPayloads
  /\ batch.workers = 2
  /\ \E u \in Units : Limited(u) >= 1
  /\ \E i, j \in 1..Len(results) : i # j /\ results[i] = results[j]
  /\ yielded[1] # 1

(***************************************************************************)
(* C10 as stated: the returned list is in completion order for any two     *)
(* units, also for units finished before collecting began.                 *)
(***************************************************************************)
C10_CompletionOrder ==
  main = "returned" =>
    \A a, b \in Units :
      Before(finishOrder, a, b) => Before(yielded, a, b)

(***************************************************************************)
(* C10 amended: if the future of unit A finished before the future of unit *)
(* B, and B's was not yet finished when collecting began, then A's result  *)
(* is collected before B's.                                                *)
(***************************************************************************)
C10_CompletionOrderOfWaited ==
  \A a, b \in Units :
    (/\ Occurs(yielded, b)
     /\ b \notin snapshot
     /\ Before(finishOrder, a, b))
    => Before(yielded, a, b)

C10_Witness ==
  /\ main = "returned"
  /\ Len(batch.payloads) >= 2
  /\ snapshot = {}
  /\ yielded = finishOrder
  /\ yielded[1] # 1

(***************************************************************************)
(* C11 as stated: with one worker the i-th returned result is the result   *)
(* of the i-th submitted payload, for every schedule.                      *)
(***************************************************************************)
C11_SubmissionOrder ==
  (batch.workers = 1 /\ main = "returned") =>
    \A i \in 1..Len(results) : results[i] = outcome[i].value

(***************************************************************************)
(* C11 amended: with one worker the units finish in submission order, and  *)
(* the result of a unit that had not finished when collecting began comes  *)
(* after the results of all payloads submitted before it; when at most one *)
(* unit had finished by then, the i-th result is that of the i-th payload. *)
(***************************************************************************)
C11_SubmissionOrderOfWaited ==
  batch.workers = 1 =>
    /\ \A i \in 1..Len(finishOrder) : finishOrder[i] = i
    /\ \A a, b \in Units :
         (a < b /\ Occurs(yielded, b) /\ b \notin snapshot) => Before(yielded, a, b)
    /\ (main = "returned" /\ Cardinality(snapshot) <= 1) =>
         \A i \in 1..Len(results) : yielded[i] = i /\ results[i] = outcome[i].value

C11_Witness ==
  /\ batch.workers = 1
  /\ main = "returned"
  /\ Len(batch.payloads) = MaxPayloads
  /\ Cardinality(snapshot) <= 1
  /\ results[1] # results[2]
  /\ \E u \in Units : Limited(u) >= 1

(***************************************************************************)
(* C12: at most worker_count units are in flight (started and not          *)
(* finished, sleeping ones included); a unit starts only while fewer than  *)
(* worker_count are in flight, so a sleeping worker takes no other unit.   *)
(***************************************************************************)
Started == {u \in Units : pc[u] \in {"attempt", "backoff", "retry_wait"}}

C12_BoundedInFlight ==
  [][/\ Cardinality(Started) <= batch.workers
     /\ Cardinality(Started') <= batch.workers
     /\ \A u \in Units :
          (pc[u] = "idle" /\ pc'[u] # "idle") =>
            /\ Cardinality(Started) < batch.workers
            /\ Started' = Started \cup {u}]_vars

C12_Witness ==
  /\ Cardinality(Started) = batch.workers
  /\ queue # <<>>
  /\ \A u \in Started : pc[u] = "backoff"

(***************************************************************************)
(* C13 as stated: every transport call carries the configured token in     *)
(* token mode and the pair (company_key\username, password) otherwise.     *)
(***************************************************************************)
IsSend(e) == e.ev = "send"
Sends(u) == SelectSeq(trace[u], IsSend)

C13_TokenOrPair ==
  \A u \in DOMAIN pc :
    \A i \in 1..Len(Sends(u)) :
      Sends(u)[i].auth =
        (IF Truthy(config.authentication_token)
           THEN config.authentication_token
           ELSE PyTuple(config.company_key.s \o "\\" \o config.username.s,
                        config.password))

(***************************************************************************)
(* C13 amended: every transport call, retries included, carries no         *)
(* credential (None) in token mode and the pair (company_key\username,     *)
(* password) in username/password mode, the same on every retry.           *)
(***************************************************************************)
C13_NoneOrPair ==
  \A u \in DOMAIN pc :
    \A i \in 1..Len(Sends(u)) :
      /\ Sends(u)[i].auth =
           (IF config.authentication_token # None
              THEN None
              ELSE PyTuple(config.company_key.s \o "\\" \o config.username.s,
                           config.password))
      /\ Sends(u)[i].auth = Sends(u)[1].auth
      /\ config.authentication_token = None =>
           Sends(u)[i].auth = PyTuple("acme\\user", PyStr("pw"))

C13_Witness ==
  \E u \in DOMAIN pc :
    /\ Len(Sends(u)) = MaxAttempts
    /\ Limited(u) >= 1 /\ Faults(u) >= 1
    /\ Sends(u)[MaxAttempts].auth = PyTuple("acme\\user", PyStr("pw"))

(***************************************************************************)
(* C14: connection_handler never gives up.  After any mix of 429           *)
(* responses and retry-worthy faults it is still retrying; it returns the  *)
(* result of the first transport call that is neither, it raises only on   *)
(* a fault that is not retry-worthy, and once called it does end when the  *)
(* transport stops answering with 429 or retry-worthy faults.              *)
(***************************************************************************)
Retryable(u) ==
  LET t == Transport(config, resp[u]).out
  IN \/ t.kind = "return" /\ t.status = 429
     \/ t.kind = "raise" /\ t.exc.cls \in retry_worthy

C14_Resolution ==
  \A u \in DOMAIN pc :
    /\ pc[u] \in {"backoff", "retry_wait"} =>
         /\ Retryable(u)
         /\ Attempts(u) = Limited(u) + Faults(u)
    /\ pc[u] = "returned" =>
         /\ ~Retryable(u)
         /\ Attempts(u) = Limited(u) + Faults(u) + 1
         /\ Len(Sleeps(u)) = Limited(u) + Faults(u)
         /\ outcome[u] = [kind |-> "return", value |-> Transport(config, resp[u]).out.result]
    /\ pc[u] = "raised" =>
         /\ Transport(config, resp[u]).out.kind = "raise"
         /\ Transport(config, resp[u]).out.exc.cls \notin retry_worthy

C14_NoCeiling ==
  /\ []C14_Resolution
  /\ \A u \in {1} : (pc[u] = "attempt") ~> (pc[u] \in {"returned", "raised"})

C14_Witness ==
  \E u \in DOMAIN pc :
    /\ pc[u] = "returned"
    /\ Limited(u) >= 1 /\ Faults(u) >= 1
    /\ Attempts(u) = MaxAttempts

(***************************************************************************)
(* C15: when a unit ends with a fatal fault, threaded_handler raises a     *)
(* unit's fault and returns no list, whatever was collected before; it     *)
(* raises only after every submitted unit was run and has finished.        *)
(***************************************************************************)
C15_FatalAfterAllFinished ==
  /\ (\E u \in Units : outcome[u].kind = "raise") => main # "returned"
  /\ main \in {"unwinding", "raised"} =>
       /\ thrown.kind = "raise"
       /\ outcome[yielded[Len(yielded)]] = thrown
       /\ Len(results) = Len(yielded) - 1
  /\ main = "raised" =>
       /\ \A u \in Units : future[u] = "finished"
       /\ \A u \in Units : CountEv(trace[u], "call") = 1
       /\ queue = <<>>

C15_Witness ==
  /\ main = "raised"
  /\ Len(results) >= 1
  /\ Len(yielded) = MaxPayloads
  /\ \E u \in Units : Limited(u) >= 1

(***************************************************************************)
(* C16: the error log record of a 429 precedes the backoff sleep and the   *)
(* retry; the error log record of an exception precedes the 20-second      *)
(* sleep and the retry, and precedes the raise.  No sleep, retry or raise  *)
(* happens without a log record since the transport call that caused it.   *)
(***************************************************************************)
LastSend(tr, i) ==
  CHOOSE j \in 0..(i - 1) :
    /\ j > 0 => tr[j].ev = "send"
    /\ \A k \in (j + 1)..(i - 1) : tr[k].ev # "send"

LoggedSince(tr, i, what) ==
  \E j \in (LastSend(tr, i) + 1)..(i - 1) : tr[j] = Log("error", what)

C16_LoggedFirst ==
  \A u \in DOMAIN pc :
    /\ \A i \in 1..Len(trace[u]) :
         /\ trace[u][i].ev = "sleep" =>
              /\ LastSend(trace[u], i) > 0
              /\ IF trace[u][i].secs = 20 /\ trace[u][i - 1].ev # "now"
                   THEN LoggedSince(trace[u], i, "exception")
                   ELSE LoggedSince(trace[u], i, "limited")
         /\ (trace[u][i].ev = "send" /\ LastSend(trace[u], i) > 0) =>
              \E j \in (LastSend(trace[u], i) + 1)..(i - 1) :
                /\ trace[u][j].ev = "sleep"
                /\ \E k \in (LastSend(trace[u], i) + 1)..(j - 1) :
                     trace[u][k].ev = "log" /\ trace[u][k].level = "error"
    /\ pc[u] = "raised" =>
         /\ LoggedSince(trace[u], Len(trace[u]) + 1, "exception")
         /\ trace[u][Len(trace[u])] = Log("error", "exception")
    /\ pc[u] \in {"backoff", "retry_wait"} => trace[u][Len(trace[u])].ev = "sleep"

C16_Witness ==
  \E u \in DOMAIN pc :
    /\ pc[u] = "raised"
    /\ Limited(u) = 1
    /\ Len(Sleeps(u)) = 2
    /\ Sleeps(u)[1].secs = 20
    /\ Sleeps(u)[2].secs = 3600

(***************************************************************************)
(* A caller whose requests are throttled at any moment of the hour: the    *)
(* first 429 arrives at any minute and second, the later ones at the       *)
(* readings of Clocks.                                                     *)
(***************************************************************************)
AllClocks == [minute : 0..59, second : 0..59]

HourResponses ==
  { r \in Responses : /\ r.kind = "response"
                      /\ r.status \in {200, 429}
                      /\ r.headers = {CorrelationHeader}
                      /\ r.body = [ok |-> TRUE, json |-> Dict([d |-> PyInt(1), error |-> PyStr("E1")])] }

InitHour == Init /\ config \in BatchConfigs

NextHour ==
  \/ Call(1) /\ UNCHANGED bvars
  \/ Attempt(1, HourResponses, IF Limited(1) = 0 THEN AllClocks ELSE Clocks, MaxAttempts)
       /\ UNCHANGED bvars
  \/ Wake(1) /\ UNCHANGED bvars

SpecHour == InitHour /\ [][NextHour]_vars

(***************************************************************************)
(* C17: at minute m and second s, both in 0..59, the backoff is            *)
(* 3600 - (60 m + s) seconds, a value in 1..3600 that is 3600 exactly on   *)
(* the hour; every 429 reads the clock once and sleeps for the backoff of  *)
(* that reading before it retries.                                         *)
(***************************************************************************)
C17_TillNextHour ==
  \A u \in DOMAIN pc :
    /\ CountEv(trace[u], "now") = Limited(u)
    /\ \A i \in 1..Len(trace[u]) :
         /\ trace[u][i].ev = "now" =>
              LET m == trace[u][i].minute
                  s == trace[u][i].second
              IN /\ m \in 0..59 /\ s \in 0..59
                 /\ trace[u][i - 1] = Log("error", "limited")
                 /\ i < Len(trace[u])
                 /\ trace[u][i + 1].ev = "sleep"
                 /\ trace[u][i + 1].secs = 3600 - (60 * m + s)
                 /\ trace[u][i + 1].secs \in 1..3600
                 /\ (trace[u][i + 1].secs = 3600) <=> (m = 0 /\ s = 0)
         /\ trace[u][i] = Log("error", "limited") =>
              /\ i + 2 <= Len(trace[u])
              /\ trace[u][i + 1].ev = "now"
              /\ i + 3 <= Len(trace[u]) => trace[u][i + 3].ev = "send"

C17_Witness ==
  \E u \in DOMAIN pc :
    \E i, j \in 1..Len(trace[u]) :
      /\ i < j
      /\ trace[u][i] = Clock([minute |-> 17, second |-> 23])
      /\ trace[u][i + 1] = Sleep(2557)
      /\ trace[u][j] = Clock([minute |-> 0, second |-> 0])
      /\ trace[u][j + 1] = Sleep(3600)
      /\ pc[u] = "returned"

(***************************************************************************)
(* C18: a 429 answer, with or without the correlation header and with or   *)
(* without a parseable body, comes back from post_request and get_request  *)
(* as (429, 'API Calls Limit Reached.') with no header read and no raise,  *)
(* and the handler takes the rate-limit branch; an answer of any other     *)
(* status that lacks the header is a fault.                                *)
(***************************************************************************)
C18_ShortCircuit ==
  \A u \in DOMAIN pc :
    resp[u].kind = "response" =>
      /\ resp[u].status = 429 =>
           /\ post_request(resp[u]) = [out |-> Returned(429, LimitSentinel), logs |-> <<>>]
           /\ get_request(resp[u]) = [out |-> Returned(429, LimitSentinel), logs |-> <<>>]
           /\ Transport(config, resp[u]).out = Returned(429, LimitSentinel)
           /\ pc[u] \in {"backoff", "attempt"}
           /\ outcome[u] = NoOutcome
           /\ Limited(u) >= 1
           /\ pc[u] = "backoff" =>
                /\ trace[u][Len(trace[u]) - 3].ev = "send"
                /\ trace[u][Len(trace[u]) - 2] = Log("error", "limited")
      /\ (resp[u].status # 429 /\ CorrelationHeader \notin resp[u].headers) =>
           /\ Transport(config, resp[u]).out.kind = "raise"
           /\ Transport(config, resp[u]).out.exc.cls = "KeyError"
           /\ pc[u] = "raised"
           /\ outcome[u].kind = "raise"
           /\ outcome[u].exc.cls = "KeyError"

C18_Witness ==
  \E u \in DOMAIN pc :
    /\ pc[u] = "backoff"
    /\ resp[u].kind = "response"
    /\ resp[u].status = 429
    /\ resp[u].headers = {}
    /\ ~resp[u].body.ok
    /\ config.method = "post"
    /\ Limited(u) = 2

(***************************************************************************)
(* C19: the progress lines are 1, 2, 3, ... with no gap and no repeat, one *)
(* per future the collecting loop was handed; the counter changes only in  *)
(* a step of the collecting loop, by one; the k-th line is written when at *)
(* least k units have finished; a batch of N units that returns has        *)
(* written N lines and its counter equals the number of results.           *)
(***************************************************************************)
C19_ProgressSignals ==
  [][ /\ printed' = [i \in 1..counter' |-> i]
      /\ counter' = Len(yielded')
      /\ counter' <= Len(finishOrder')
      /\ \A i \in 1..Len(yielded') :
           /\ future'[yielded'[i]] = "finished"
           /\ Times(yielded', yielded'[i]) = 1
      /\ counter' # counter =>
           /\ main = "collecting"
           /\ counter' = counter + 1
           /\ Len(printed') = Len(printed) + 1
           /\ hvars' = hvars
      /\ main' = "returned" =>
           /\ counter' = Len(batch.payloads)
           /\ counter' = Len(results')
    ]_vars

C19_Witness ==
  /\ main = "returned"
  /\ Len(printed) = MaxPayloads
  /\ printed[MaxPayloads] = MaxPayloads
  /\ counter = Len(results)
  /\ Cardinality(snapshot) = 0

(***************************************************************************)
(* C20: no step of a batch changes the handler's method, headers, company  *)
(* key, credentials or base URLs, nor the batch it was given; a step of    *)
(* one unit leaves every other unit's arguments and progress alone, and    *)
(* every call and every request of a unit carries the handler's settings,  *)
(* the batch's URL and that unit's own payload.                            *)
(***************************************************************************)
C20_ReadOnlyConfig ==
  [][ /\ config' = config
      /\ batch' = batch
      /\ \A u \in Units :
           /\ args[u] # NoArgs => args'[u] = args[u]
           /\ args'[u] # NoArgs =>
                args'[u] = [connector |-> batch.connector, payload |-> batch.payloads[u]]
           /\ \A i \in 1..Len(trace'[u]) :
                /\ trace'[u][i].ev = "call" =>
                     trace'[u][i] = Invoke([connector |-> batch.connector,
                                            payload |-> batch.payloads[u]])
                /\ trace'[u][i].ev = "send" =>
                     trace'[u][i] = [ev |-> "send", method |-> config.method,
                                     url |-> batch.connector, headers |-> config.headers,
                                     payload |-> batch.payloads[u],
                                     auth |-> Authentication(config)]
           /\ \A v \in Units \ {u} :
                (trace'[u] # trace[u] \/ pc'[u] # pc[u]) =>
                  /\ trace'[v] = trace[v] /\ pc'[v] = pc[v] /\ frames'[v] = frames[v]
                  /\ resp'[v] = resp[v] /\ outcome'[v] = outcome[v]
    ]_vars

C20_Witness ==
  /\ main = "returned"
  /\ Len(batch.payloads) = MaxPayloads
  /\ batch.workers = MaxWorkers
  /\ batch.payloads[1] # batch.payloads[MaxPayloads]
  /\ \A u \in Units : Attempts(u) = BatchMaxAttempts
  /\ Sends(1)[BatchMaxAttempts].payload # Sends(MaxPayloads)[BatchMaxAttempts].payload

====
